---- MODULE Spec2Model ----
(***************************************************************************)
(* A model of the CHIP-8 interpreter of src/chip8: the machine aggregate   *)
(* CHIP8 (main.rs), its Display (display.rs) and its Timer (timer.rs).     *)
(* One action per public operation; a panic of the Rust code is the        *)
(* status "panicked", after which no operation runs.                       *)
(***************************************************************************)
EXTENDS Integers, Sequences, FiniteSets, TLC

VARIABLES
    memory,           \* CHIP8.memory: [u8; 4096]
    screen,           \* CHIP8.display.screen: [[bool; 64]; 32]
    stack,            \* CHIP8.stack: TinyVec<[(u8, u8); 16]>
    variable,         \* CHIP8.variable: [u8; 16], V0..VF
    index,            \* CHIP8.index: u16
    delay_timer,      \* CHIP8.timer.delay_timer: u8
    sound_timer,      \* CHIP8.timer.sound_timer: u8
    program_counter,  \* CHIP8.program_counter: u16
    status,           \* "running", or "panicked" once a panic! has unwound main
    stdout,           \* the lines println! has written ("BEEP", "D")
    overflow_checks,  \* the build: TRUE when integer overflow panics (debug, test)
    op,               \* the operation that acted last
    instruction,      \* the (u8, u8) last returned by fetch or given to decode_execute
    pixels_written,   \* how many pixels the caller turned on in display.screen
    timer_start,      \* the <<delay, sound>> the caller last wrote to the timers
    interval,         \* run's Interval: <<ticks completed, time of the last in us>>
    fetched_at,       \* <<p>>: that instruction was fetched from address p; or NoAddr
    steps             \* how many operations were called

vars == <<memory, screen, stack, variable, index, delay_timer, sound_timer,
          program_counter, status, stdout, overflow_checks, op, instruction,
          pixels_written, timer_start, interval, fetched_at, steps>>

-----------------------------------------------------------------------------
(* Bounds of the model *)

MaxSteps == 3
MaxTicks == 7
MaxStart == 5
MaxRunTicks == 13

(* Program constants *)

MemSize == 4096
Rows == 32
Cols == 64
NumRegs == 16
FontStart == 80
LoadAddr == 512
InstructionPeriod == 1429
TimerRate == 60
\* No address: the instruction was not fetched from memory.
NoAddr == <<>>

U8 == 0..255
Regs == 0..(NumRegs - 1)

-----------------------------------------------------------------------------
(* Bit operations on naturals, as the u8/u16 operators of the source compute them *)

RECURSIVE BitAnd(_, _)
BitAnd(a, b) ==
    IF a = 0 \/ b = 0 THEN 0
    ELSE (IF a % 2 = 1 /\ b % 2 = 1 THEN 1 ELSE 0) + 2 * BitAnd(a \div 2, b \div 2)

RECURSIVE BitOr(_, _)
BitOr(a, b) ==
    IF a = 0 THEN b
    ELSE IF b = 0 THEN a
    ELSE (IF a % 2 = 1 \/ b % 2 = 1 THEN 1 ELSE 0) + 2 * BitOr(a \div 2, b \div 2)

RECURSIVE Pow2(_)
Pow2(k) == IF k = 0 THEN 1 ELSE 2 * Pow2(k - 1)

\* a >> k
Shr(a, k) == a \div Pow2(k)

\* (a as u16) << k
Shl16(a, k) == (a * Pow2(k)) % 65536

-----------------------------------------------------------------------------
(* Decode: the fields of an instruction (b1, b2) *)

IType(i) == Shr(BitAnd(i[1], 240), 4)
FieldX(i) == BitAnd(i[1], 15)
FieldY(i) == Shr(BitAnd(i[2], 240), 4)
FieldN(i) == BitAnd(i[2], 15)
FieldNN(i) == i[2]
\* A recomposition that shifts the first nibble by four bits only.
FieldNNNOffByNibble(i) ==
    BitOr(BitOr(Shl16(FieldX(i), 4), Shl16(FieldY(i), 4)), FieldN(i))

FieldNNN(i) == BitOr(BitOr(Shl16(FieldX(i), 8), Shl16(FieldY(i), 4)), FieldN(i))

\* The instruction word with nibbles t, x, y, n, as its two bytes.
Word(t, x, y, n) == <<t * 16 + x, y * 16 + n>>

-----------------------------------------------------------------------------
(* Construction *)

\* font::FONT_SET: 16 glyphs of 5 bytes, the hexadecimal digits 0..F.
FONT_SET ==
    << 240, 144, 144, 144, 240,    32,  96,  32,  32, 112,
       240,  16, 240, 128, 240,   240,  16, 240,  16, 240,
       144, 144, 240,  16,  16,   240, 128, 240,  16, 240,
       240, 128, 240, 144, 240,   240,  16,  32,  64,  64,
       240, 144, 240, 144, 240,   240, 144, 240,  16, 240,
       240, 144, 240, 144, 144,   224, 144, 224, 144, 224,
       240, 128, 128, 128, 240,   224, 144, 144, 144, 224,
       240, 128, 240, 128, 240,   240, 128, 240, 128, 128 >>

\* Display::new: every pixel off.
BlankScreen == [r \in 0..(Rows - 1) |-> [c \in 0..(Cols - 1) |-> FALSE]]

\* A construction that copies the font to the start of memory.
NewMemoryFontAtZero ==
    [a \in 0..(MemSize - 1) |-> IF a < Len(FONT_SET) THEN FONT_SET[a + 1] ELSE 0]

\* CHIP8::new's memory: zeroes, with the font at 0x50..=0x9F.
NewMemory ==
    [a \in 0..(MemSize - 1) |->
        IF a >= FontStart /\ a < FontStart + Len(FONT_SET)
        THEN FONT_SET[(a - FontStart) + 1]
        ELSE 0]

\* CHIP8::new (with Display::new and Timer::new).
New ==
    /\ memory = NewMemory
    /\ screen = BlankScreen
    /\ stack = <<>>
    /\ variable = [r \in Regs |-> 0]
    /\ index = 0
    /\ delay_timer = 0
    /\ sound_timer = 0
    /\ program_counter = 0

Init ==
    /\ New
    /\ status = "running"
    /\ stdout = <<>>
    /\ overflow_checks \in BOOLEAN
    /\ op = "new"
    /\ instruction = <<0, 0>>
    /\ pixels_written = 0
    /\ timer_start = <<0, 0>>
    /\ interval = <<0, 0>>
    /\ fetched_at = NoAddr
    /\ steps = 0

-----------------------------------------------------------------------------
(* The caller's set-up through the public fields, before it drives the machine *)

\* The program image of the model: 600A (V0 = 0x0A), 71FF (V1 += 0xFF).
Program == <<96, 10, 113, 255>>

\* What the model's caller writes to the timers, and the pixels it turns on.
TimerInputs == {<<1, 2>>}
PixelInputs == {<<5, 5>>}

InSetup == op \in {"new", "write"}

\* The loader: the image at 0x200, and program_counter = 0x200.
Load ==
    /\ InSetup
    /\ status = "running"
    /\ memory' = [a \in 0..(MemSize - 1) |->
                    IF a >= LoadAddr /\ a < LoadAddr + Len(Program)
                    THEN Program[(a - LoadAddr) + 1]
                    ELSE memory[a]]
    /\ program_counter' = LoadAddr
    /\ op' = "load"
    /\ UNCHANGED <<screen, stack, variable, index, delay_timer, sound_timer, status,
                   stdout, overflow_checks, interval, pixels_written, timer_start,
                   instruction, fetched_at, steps>>

\* timer.delay_timer and timer.sound_timer written directly (tests::cycle).
WriteTimers(d, s) ==
    /\ InSetup
    /\ <<delay_timer, sound_timer>> # <<d, s>>
    /\ delay_timer' = d
    /\ sound_timer' = s
    /\ timer_start' = <<d, s>>
    /\ op' = "write"
    /\ UNCHANGED <<memory, screen, stack, variable, index, program_counter, status,
                   stdout, overflow_checks, interval, pixels_written, instruction,
                   fetched_at, steps>>

\* display.screen[row][col] = true (the example of Display::clear).
WritePixel(row, col) ==
    /\ InSetup
    /\ ~screen[row][col]
    /\ screen' = [screen EXCEPT ![row][col] = TRUE]
    /\ pixels_written' = pixels_written + 1
    /\ op' = "write"
    /\ UNCHANGED <<memory, stack, variable, index, delay_timer, sound_timer,
                   program_counter, status, stdout, overflow_checks, interval,
                   timer_start, instruction, fetched_at, steps>>

-----------------------------------------------------------------------------
(* Timer *)

\* A cycle that decrements without looking at the counters: 0 wraps to 255.
CycleUnguarded ==
    /\ status = "running"
    /\ delay_timer' = (delay_timer + 255) % 256
    /\ sound_timer' = (sound_timer + 255) % 256
    /\ stdout' = IF sound_timer > 0 THEN Append(stdout, "BEEP") ELSE stdout
    /\ op' = "cycle"
    /\ steps' = steps + 1
    /\ UNCHANGED <<memory, screen, stack, variable, index, program_counter, status,
                   overflow_checks, pixels_written, timer_start, instruction,
                   fetched_at>>

\* A cycle that beeps on the delay timer.
CycleBeepOnDelay ==
    /\ status = "running"
    /\ delay_timer' = IF delay_timer > 0 THEN delay_timer - 1 ELSE delay_timer
    /\ sound_timer' = IF sound_timer > 0 THEN sound_timer - 1 ELSE sound_timer
    /\ stdout' = IF delay_timer > 0 THEN Append(stdout, "BEEP") ELSE stdout
    /\ op' = "cycle"
    /\ steps' = steps + 1
    /\ UNCHANGED <<memory, screen, stack, variable, index, program_counter, status,
                   overflow_checks, pixels_written, timer_start, instruction,
                   fetched_at>>

\* A cycle that counts down the sound timer only.
CycleSoundOnly ==
    /\ status = "running"
    /\ delay_timer' = delay_timer
    /\ sound_timer' = IF sound_timer > 0 THEN sound_timer - 1 ELSE sound_timer
    /\ stdout' = IF sound_timer > 0 THEN Append(stdout, "BEEP") ELSE stdout
    /\ op' = "cycle"
    /\ steps' = steps + 1
    /\ UNCHANGED <<memory, screen, stack, variable, index, program_counter, status,
                   overflow_checks, pixels_written, timer_start, instruction,
                   fetched_at>>

\* Timer::cycle.
Cycle ==
    /\ status = "running"
    /\ delay_timer' = IF delay_timer > 0 THEN delay_timer - 1 ELSE delay_timer
    /\ sound_timer' = IF sound_timer > 0 THEN sound_timer - 1 ELSE sound_timer
    /\ stdout' = IF sound_timer > 0 THEN Append(stdout, "BEEP") ELSE stdout
    /\ op' = "cycle"
    /\ steps' = steps + 1
    /\ UNCHANGED <<memory, screen, stack, variable, index, program_counter, status,
                   overflow_checks, pixels_written, timer_start, instruction,
                   fetched_at>>

-----------------------------------------------------------------------------
(* Display *)

\* A clear that stops one row short.
ClearedButLastRow ==
    [r \in 0..(Rows - 1) |->
        [c \in 0..(Cols - 1) |-> IF r = Rows - 1 THEN screen[r][c] ELSE FALSE]]

\* Display::clear, as an assignment to the screen.
ClearedScreen == [r \in 0..(Rows - 1) |-> [c \in 0..(Cols - 1) |-> FALSE]]

\* display.clear() called by the owner of the machine.
Clear ==
    /\ status = "running"
    /\ screen' = ClearedScreen
    /\ op' = "clear"
    /\ steps' = steps + 1
    /\ UNCHANGED <<memory, stack, variable, index, delay_timer, sound_timer,
                   program_counter, status, stdout, overflow_checks, interval,
                   pixels_written, timer_start, instruction, fetched_at>>

-----------------------------------------------------------------------------
(* CPU: fetch *)

\* A fetch that advances the program counter once for the two bytes.
FetchAdvancesOnce ==
    /\ status = "running"
    /\ op' = "fetch"
    /\ steps' = steps + 1
    /\ fetched_at' = <<program_counter>>
    /\ IF program_counter + 1 >= MemSize
       THEN /\ status' = "panicked"
            /\ UNCHANGED <<program_counter, instruction>>
       ELSE /\ instruction' = <<memory[program_counter], memory[program_counter + 1]>>
            /\ program_counter' = program_counter + 1
            /\ UNCHANGED status
    /\ UNCHANGED <<memory, screen, stack, variable, index, delay_timer, sound_timer,
                   stdout, overflow_checks, interval, pixels_written, timer_start>>

\* CHIP8::fetch. An index past the end of memory panics, after the increments
\* that came before it. program_counter += 1 cannot overflow u16 here: the
\* index before it was in bounds.
Fetch ==
    /\ status = "running"
    /\ op' = "fetch"
    /\ steps' = steps + 1
    /\ fetched_at' = <<program_counter>>
    /\ IF program_counter >= MemSize
       THEN /\ status' = "panicked"
            /\ UNCHANGED <<program_counter, instruction>>
       ELSE IF program_counter + 1 >= MemSize
       THEN /\ status' = "panicked"
            /\ program_counter' = program_counter + 1
            /\ UNCHANGED instruction
       ELSE /\ instruction' = <<memory[program_counter], memory[program_counter + 1]>>
            /\ program_counter' = program_counter + 2
            /\ UNCHANGED status
    /\ UNCHANGED <<memory, screen, stack, variable, index, delay_timer, sound_timer,
                   stdout, overflow_checks, interval, pixels_written, timer_start>>

-----------------------------------------------------------------------------
(* CPU: the handlers of decode_execute, each the whole effect on the machine *)

\* What a panic! leaves: the process is gone, the machine as it was.
Panic ==
    /\ status' = "panicked"
    /\ UNCHANGED <<memory, screen, stack, variable, index, delay_timer, sound_timer,
                   program_counter, stdout>>

\* 0x0 => self.display.clear()
ClearScreen ==
    /\ screen' = ClearedScreen
    /\ UNCHANGED <<memory, stack, variable, index, delay_timer, sound_timer,
                   program_counter, status, stdout>>

\* A jump that keeps only the low byte of the address.
JumpLowByte(nnn) ==
    /\ program_counter' = nnn % 256
    /\ UNCHANGED <<memory, screen, stack, variable, index, delay_timer, sound_timer,
                   status, stdout>>

\* A jump that pushes the return address, as a subroutine call does.
JumpPushesReturn(nnn) ==
    /\ program_counter' = nnn
    /\ stack' = Append(stack, program_counter)
    /\ UNCHANGED <<memory, screen, variable, index, delay_timer, sound_timer, status,
                   stdout>>

\* 0x1 => self.program_counter = nnn
Jump(nnn) ==
    /\ program_counter' = nnn
    /\ UNCHANGED <<memory, screen, stack, variable, index, delay_timer, sound_timer,
                   status, stdout>>

\* 0x6 => self.variable[x] = nn
SetImmediate(x, nn) ==
    /\ variable' = [variable EXCEPT ![x] = nn]
    /\ UNCHANGED <<memory, screen, stack, index, delay_timer, sound_timer,
                   program_counter, status, stdout>>

\* An add that stores a carry in VF, as the register-to-register add does.
AddImmediateCarry(x, nn) ==
    /\ variable' = [variable EXCEPT
                      ![x] = IF variable[0] = 255 THEN (variable[x] + nn) % 256
                                                  ELSE variable[x],
                      ![15] = IF variable[x] + nn > 255 THEN 1 ELSE 0]
    /\ UNCHANGED <<memory, screen, stack, index, delay_timer, sound_timer,
                   program_counter, status, stdout>>

\* 0x7 => if self.variable[0] == 0xFF { self.variable[x] += nn }
\* The u8 += panics on overflow in a build with overflow checks and wraps in one
\* without.
AddImmediate(x, nn) ==
    IF variable[0] = 255
    THEN IF variable[x] + nn > 255 /\ overflow_checks
         THEN Panic
         ELSE /\ variable' = [variable EXCEPT ![x] = (variable[x] + nn) % 256]
              /\ UNCHANGED <<memory, screen, stack, index, delay_timer, sound_timer,
                             program_counter, status, stdout>>
    ELSE UNCHANGED <<memory, screen, stack, variable, index, delay_timer,
                     sound_timer, program_counter, status, stdout>>

\* A set-index that also moves the program counter, as the jump does.
SetIndexAndJump(nnn) ==
    /\ index' = nnn
    /\ program_counter' = nnn
    /\ UNCHANGED <<memory, screen, stack, variable, delay_timer, sound_timer,
                   status, stdout>>

\* 0xA => self.index = nnn
SetIndex(nnn) ==
    /\ index' = nnn
    /\ UNCHANGED <<memory, screen, stack, variable, delay_timer, sound_timer,
                   program_counter, status, stdout>>

\* 0xD => println!("D")
Draw(x, y, n) ==
    /\ stdout' = Append(stdout, "D")
    /\ UNCHANGED <<memory, screen, stack, variable, index, delay_timer, sound_timer,
                   program_counter, status>>

\* _ => panic!("error: unknown instruction {:x}", itype)
UnknownInstruction(itype) == Panic

\* The match of decode_execute over itype.
Execute(i) ==
    CASE IType(i) = 0  -> ClearScreen
      [] IType(i) = 1  -> Jump(FieldNNN(i))
      [] IType(i) = 6  -> SetImmediate(FieldX(i), FieldNN(i))
      [] IType(i) = 7  -> AddImmediate(FieldX(i), FieldNN(i))
      [] IType(i) = 10 -> SetIndex(FieldNNN(i))
      [] IType(i) = 13 -> Draw(FieldX(i), FieldY(i), FieldN(i))
      [] OTHER         -> UnknownInstruction(IType(i))

\* CHIP8::decode_execute(instruction).
DecodeExecute(i) ==
    /\ status = "running"
    /\ Execute(i)
    /\ op' = "decode_execute"
    /\ instruction' = i
    /\ steps' = steps + 1
    /\ UNCHANGED <<overflow_checks, interval, timer_start, pixels_written>>

-----------------------------------------------------------------------------
(* The machine driven through its public operations *)

\* The instruction words the model's caller passes to decode_execute.
JumpInputs == {Word(1, 15, 15, 14), Word(1, 15, 15, 15), Word(1, 2, 3, 4)}
SetInputs == {Word(6, 0, 15, 15), Word(6, 1, 0, 10), Word(6, 15, 0, 10)}
AddInputs == {Word(7, 1, 0, 1), Word(7, 1, 15, 15), Word(7, 15, 0, 1)}
OtherInputs == {Word(0, 0, 14, 0), Word(10, 2, 0, 3), Word(13, 0, 0, 1)}
UnhandledTypes == {2, 3, 4, 5, 8, 9, 11, 12, 14, 15}
UnhandledInputs == {Word(t, 1, 2, 3) : t \in UnhandledTypes}
InstrInputs == JumpInputs \cup SetInputs \cup AddInputs \cup OtherInputs
                 \cup UnhandledInputs

\* decode_execute(fetch()): the instruction just fetched is executed.
DecodeExecuteFetched ==
    /\ steps < MaxSteps
    /\ op = "fetch"
    /\ DecodeExecute(instruction)
    /\ UNCHANGED fetched_at

\* decode_execute(i) for a word the caller supplies.
DecodeExecuteInput ==
    /\ steps < MaxSteps
    /\ \E i \in InstrInputs : DecodeExecute(i)
    /\ fetched_at' = NoAddr

FetchStep == steps < MaxSteps /\ Fetch

CycleStep == steps < MaxSteps /\ Cycle /\ UNCHANGED interval

ClearStep == steps < MaxSteps /\ Clear

SetupTimers == \E t \in TimerInputs : WriteTimers(t[1], t[2])

SetupPixel == \E p \in PixelInputs : WritePixel(p[1], p[2])

Next ==
    \/ Load
    \/ SetupTimers
    \/ SetupPixel
    \/ FetchStep
    \/ DecodeExecuteFetched
    \/ DecodeExecuteInput
    \/ CycleStep
    \/ ClearStep

Spec == Init /\ [][Next]_vars

-----------------------------------------------------------------------------
(* The timer pair alone: the caller writes the counters, then ticks them *)

TimerStarts == (0..MaxStart) \cup {255}

TimerSetup == \E d \in TimerStarts, s \in TimerStarts : WriteTimers(d, s)

TimerTick == steps < MaxTicks /\ Cycle /\ UNCHANGED interval

NextTimer == TimerSetup \/ TimerTick

TimerSpec == Init /\ [][NextTimer]_vars

-----------------------------------------------------------------------------
(* The display: the caller turns pixels on, then clears through either path *)

PixelStarts == {<<0, 0>>, <<0, 63>>, <<5, 5>>, <<31, 0>>, <<31, 63>>}

DisplayInputs ==
    {Word(0, 0, 14, 0), Word(6, 0, 15, 15), Word(10, 2, 0, 3),
     Word(0, 0, 0, 0), Word(0, 0, 14, 14), Word(0, 1, 2, 3)}

DisplaySetup == \E p \in PixelStarts : WritePixel(p[1], p[2])

DisplayClear == steps < MaxSteps /\ Clear

DisplayExecute ==
    /\ steps < MaxSteps
    /\ \E i \in DisplayInputs : DecodeExecute(i)
    /\ fetched_at' = NoAddr

NextDisplay == DisplaySetup \/ SetupTimers \/ DisplayClear \/ DisplayExecute

DisplaySpec == Init /\ [][NextDisplay]_vars

-----------------------------------------------------------------------------
(* The emulator as main runs it: CHIP8::run, after the caller's set-up *)

\* The counters the caller may have written before run.
RunStarts == 0..MaxStart

RunSetup == \E d \in RunStarts, s \in RunStarts : WriteTimers(d, s)

\* One turn of run's loop: interval.tick().await, then self.timer.cycle().
\* The first tick of a tokio Interval completes at once, each later one a
\* period after the one before.
RunTick ==
    /\ interval[1] < MaxRunTicks
    /\ Cycle
    /\ interval' = <<interval[1] + 1,
                     IF interval[1] = 0 THEN 0 ELSE interval[2] + InstructionPeriod>>

NextRun == Load \/ RunSetup \/ RunTick

\* The loop of run never ends and the interval always fires again.
RunSpec == Init /\ [][NextRun]_vars /\ WF_vars(RunTick)

-----------------------------------------------------------------------------
(* Decode alone: one word given to decode_execute on the fresh machine *)

\* Second bytes: each value of either nibble, and some mixed ones.
DecodeLowBytes == {17 * k : k \in 0..15} \cup {10, 15, 35, 205, 224, 238, 240}

DecodeOne ==
    /\ op = "new"
    /\ \E b1 \in U8, b2 \in DecodeLowBytes : DecodeExecute(<<b1, b2>>)
    /\ fetched_at' = NoAddr

DecodeSpec == Init /\ [][DecodeOne]_vars

-----------------------------------------------------------------------------
(* The operations as functions of the machine, to compare orders of calls *)

\* The fields of CHIP8, and whether the process still runs.
Machine ==
    [memory |-> memory, screen |-> screen, stack |-> stack, variable |-> variable,
     index |-> index, delay_timer |-> delay_timer, sound_timer |-> sound_timer,
     program_counter |-> program_counter, status |-> status]

\* Timer::cycle on machine m; nothing runs once the process has panicked.
CycleOn(m) ==
    IF m.status # "running" THEN m
    ELSE [m EXCEPT !.delay_timer = IF @ > 0 THEN @ - 1 ELSE @,
                   !.sound_timer = IF @ > 0 THEN @ - 1 ELSE @]

\* CHIP8::fetch on machine m: the machine after it, and the instruction returned.
FetchOn(m) ==
    IF m.program_counter >= MemSize
    THEN [m |-> [m EXCEPT !.status = "panicked"], i |-> <<0, 0>>]
    ELSE IF m.program_counter + 1 >= MemSize
    THEN [m |-> [m EXCEPT !.status = "panicked", !.program_counter = @ + 1],
          i |-> <<0, 0>>]
    ELSE [m |-> [m EXCEPT !.program_counter = @ + 2],
          i |-> <<m.memory[m.program_counter], m.memory[m.program_counter + 1]>>]

\* CHIP8::decode_execute(i) on machine m.
ExecuteOn(m, i) ==
    CASE IType(i) = 0  -> [m EXCEPT !.screen = ClearedScreen]
      [] IType(i) = 1  -> [m EXCEPT !.program_counter = FieldNNN(i)]
      [] IType(i) = 6  -> [m EXCEPT !.variable[FieldX(i)] = FieldNN(i)]
      [] IType(i) = 7  ->
           IF m.variable[0] # 255 THEN m
           ELSE IF m.variable[FieldX(i)] + FieldNN(i) > 255 /\ overflow_checks
           THEN [m EXCEPT !.status = "panicked"]
           ELSE [m EXCEPT !.variable[FieldX(i)] = (@ + FieldNN(i)) % 256]
      [] IType(i) = 10 -> [m EXCEPT !.index = FieldNNN(i)]
      [] IType(i) = 13 -> m
      [] OTHER         -> [m EXCEPT !.status = "panicked"]

\* decode_execute(fetch()) on machine m: one step of an instruction loop.
StepOn(m) ==
    IF m.status # "running" THEN m
    ELSE LET f == FetchOn(m)
         IN  IF f.m.status # "running" THEN f.m ELSE ExecuteOn(f.m, f.i)

\* The functions above and the operations of the model are the same.
FunctionsMatchOperations ==
    [][/\ op' = "cycle" => Machine' = CycleOn(Machine)
       /\ op' = "fetch" =>
            /\ Machine' = FetchOn(Machine).m
            /\ (status' = "running" => instruction' = FetchOn(Machine).i)
       /\ op' = "decode_execute" => Machine' = ExecuteOn(Machine, instruction')]_vars

-----------------------------------------------------------------------------
(* The instruction fields as the instruction set defines them, on the 16-bit word *)

OpWord(i) == i[1] * 256 + i[2]
OpType(i) == OpWord(i) \div 4096
OpX(i) == (OpWord(i) \div 256) % 16
OpNN(i) == OpWord(i) % 256
OpNNN(i) == OpWord(i) % 4096

\* The step taken is decode_execute of an instruction of type t.
Executes(t) == op' = "decode_execute" /\ OpType(instruction') = t

-----------------------------------------------------------------------------
(* C1: executing the jump 1NNN sets program_counter to nnn, the low 12 bits of
   the word, does not fault, and changes nothing else of the machine: registers,
   index, memory, display, stack and timers are as before. *)
C1_JumpSetsOnlyProgramCounter ==
    [][Executes(1) =>
         /\ program_counter' = OpNNN(instruction')
         /\ status' = "running"
         /\ UNCHANGED <<memory, screen, stack, variable, index, delay_timer,
                        sound_timer>>]_vars

\* A jump to 0xFFF has acted on a machine with V0, a timer and a pixel set.
C1_Witness ==
    /\ op = "decode_execute"
    /\ instruction = Word(1, 15, 15, 15)
    /\ program_counter = 4095
    /\ variable[0] = 255
    /\ sound_timer = 2
    /\ screen[5][5]

(* C2: after set-immediate 6XNN has put V[x] = a, add-immediate 7XNN with
   nn = b completes without fault and leaves V[x] = (a + b) mod 256, whatever
   the other registers hold. *)
C2_AddImmediateAfterSet ==
    [][(/\ op = "decode_execute"
        /\ OpType(instruction) = 6
        /\ Executes(7)
        /\ OpX(instruction') = OpX(instruction)) =>
         /\ status' = "running"
         /\ variable'[OpX(instruction')]
              = (OpNN(instruction) + OpNN(instruction')) % 256]_vars

(* C3, as amended: add-immediate 7XNN with x other than 0xF leaves VF as it
   was, in every state. *)
C3_AddImmediateKeepsVF ==
    [][(Executes(7) /\ OpX(instruction') # 15) => variable'[15] = variable[15]]_vars

\* 7101 has added to V1 (V0 = 0xFF opens the add) with VF holding 0x0A.
C3_Witness ==
    /\ op = "decode_execute"
    /\ instruction = Word(7, 1, 0, 1)
    /\ variable[0] = 255
    /\ variable[1] = 1
    /\ variable[15] = 10

(* C3, as stated: add-immediate 7XNN leaves VF as it was for every x, x = 0xF
   included. *)
C3_AddImmediateNeverWritesVF ==
    [][Executes(7) => variable'[15] = variable[15]]_vars

(* C4: an instruction whose itype has no handler leaves registers, index,
   memory, display, stack and the program counter unchanged and does not end
   the machine: it is still running, so that the next instruction can be
   fetched. *)
C4_UnhandledIsRecoverable ==
    [][(op' = "decode_execute" /\ OpType(instruction') \in UnhandledTypes) =>
         /\ status' = "running"
         /\ UNCHANGED <<memory, screen, stack, variable, index, program_counter>>]_vars

-----------------------------------------------------------------------------
(* Timer claims, under TimerSpec: steps counts the ticks since the caller wrote
   timer_start to the counters *)

Beeps(out) == Cardinality({k \in 1..Len(out) : out[k] = "BEEP"})

Monus(a, b) == IF a > b THEN a - b ELSE 0

(* C5: the counters never underflow. Every call of Timer::cycle takes 1 from a
   positive counter and leaves a counter of 0 at 0, without fault; so after k
   ticks from (d, s) the counters are max(d - k, 0) and max(s - k, 0), both in
   0..255. *)
C5_TimersNeverUnderflow ==
    /\ [](/\ status = "running"
          /\ delay_timer \in U8
          /\ sound_timer \in U8
          /\ delay_timer = Monus(timer_start[1], steps)
          /\ sound_timer = Monus(timer_start[2], steps))
    /\ [][op' = "cycle" =>
            /\ delay_timer' = IF delay_timer > 0 THEN delay_timer - 1 ELSE 0
            /\ sound_timer' = IF sound_timer > 0 THEN sound_timer - 1 ELSE 0]_vars

\* From delay = 5, sound = 0: the sixth tick has left delay at 0.
C5_Witness ==
    /\ op = "cycle"
    /\ timer_start = <<5, 0>>
    /\ steps = 6
    /\ delay_timer = 0
    /\ sound_timer = 0

(* C6: a tick emits exactly one beep if and only if sound_timer was positive
   just before it, whatever the delay timer holds; so from sound_timer = n, k
   ticks have emitted min(k, n) beeps, and once k >= n there were exactly n
   beeps and sound_timer is 0. *)
C6_BeepIffSoundPositive ==
    /\ [][op' = "cycle" =>
            stdout' = IF sound_timer > 0 THEN Append(stdout, "BEEP") ELSE stdout]_vars
    /\ [](/\ Beeps(stdout) = IF steps < timer_start[2] THEN steps ELSE timer_start[2]
          /\ (steps >= timer_start[2] =>
                sound_timer = 0 /\ Beeps(stdout) = timer_start[2]))

\* From delay = 5, sound = 2: three ticks have emitted two beeps, delay still runs.
C6_Witness ==
    /\ op = "cycle"
    /\ timer_start = <<5, 2>>
    /\ steps = 3
    /\ Beeps(stdout) = 2
    /\ sound_timer = 0
    /\ delay_timer = 2

-----------------------------------------------------------------------------
(* Display claims *)

\* A grid of exactly 32 rows by 64 columns, every pixel false.
AllOff(scr) ==
    /\ DOMAIN scr = 0..31
    /\ \A r \in 0..31 : DOMAIN scr[r] = 0..63 /\ \A c \in 0..63 : scr[r][c] = FALSE

(* C7: from every display state, Display::clear leaves 32 rows by 64 columns
   of pixels, all off; the clear-screen instruction 00E0 does exactly that to
   the display, and changes no register, index, memory, stack, timer or program
   counter. *)
C7_ClearBlanksDisplay ==
    [][(op' = "clear" \/ (op' = "decode_execute" /\ instruction' = Word(0, 0, 14, 0))) =>
         /\ AllOff(screen')
         /\ status' = "running"
         /\ UNCHANGED <<memory, stack, variable, index, delay_timer, sound_timer,
                        program_counter>>]_vars

\* 00E0 has cleared a display with five pixels on; V0 and the timers are set.
C7_Witness ==
    /\ op = "decode_execute"
    /\ instruction = Word(0, 0, 14, 0)
    /\ pixels_written = 5
    /\ AllOff(screen)
    /\ variable[0] = 255
    /\ sound_timer = 2

\* Bit k of byte b, bit 7 the most significant.
Bit(b, k) == (b \div Pow2(k)) % 2

\* Whether the sprite of n bytes at memory[idx], drawn at (vx, vy), covers the
\* pixel of row r and column c with a set bit.
SpriteCovers(vx, vy, n, idx, r, c) ==
    \E row \in 0..(n - 1), col \in 0..7 :
        /\ (vy + row) % 32 = r
        /\ (vx + col) % 64 = c
        /\ Bit(memory[(idx + row) % 4096], 7 - col) = 1

(* C8: the draw instruction DXYN XORs the n bytes at memory[index], most
   significant bit first, onto the display at (V[x] + col, V[y] + row) modulo
   64 and 32, and stores in VF whether a pixel that was on went off: 1 on a
   collision, 0 without. *)
C8_DrawXorsSprite ==
    [][Executes(13) =>
         LET i  == instruction'
             vx == variable[OpX(i)]
             vy == variable[(OpWord(i) \div 16) % 16]
             n  == OpWord(i) % 16
         IN  /\ \A r \in 0..31 : \A c \in 0..63 :
                   screen'[r][c] = (screen[r][c] # SpriteCovers(vx, vy, n, index, r, c))
             /\ variable'[15] =
                  IF \E r \in 0..31, c \in 0..63 :
                        screen[r][c] /\ SpriteCovers(vx, vy, n, index, r, c)
                  THEN 1 ELSE 0]_vars

-----------------------------------------------------------------------------
(* Fetch claims *)

ImplementedNonJump == {0, 6, 7, 10, 13}

(* C9: fetch at p followed by decode_execute of the fetched instruction, when
   that is an implemented instruction other than the jump, leaves
   program_counter = p + 2, the instruction being the two bytes at p and p + 1;
   a set-immediate 6XNN so executed leaves V[x] = nn (60 0A at 0x200: V0 = 0x0A
   and program_counter = 0x202). decode_execute of such an instruction does not
   itself change the program counter. *)
C9_FetchExecuteAdvancesByTwo ==
    /\ []((/\ op = "decode_execute"
           /\ fetched_at # NoAddr
           /\ OpType(instruction) \in ImplementedNonJump) =>
            /\ program_counter = fetched_at[1] + 2
            /\ instruction = <<memory[fetched_at[1]], memory[fetched_at[1] + 1]>>
            /\ (OpType(instruction) = 6 =>
                  status = "running" /\ variable[OpX(instruction)] = OpNN(instruction)))
    /\ [][(op' = "decode_execute" /\ OpType(instruction') \in ImplementedNonJump) =>
            program_counter' = program_counter]_vars

\* 60 0A was fetched from 0x200 and executed.
C9_Witness ==
    /\ op = "decode_execute"
    /\ fetched_at = <<512>>
    /\ instruction = <<96, 10>>
    /\ variable[0] = 10
    /\ program_counter = 514

(* C10: fetch is total and wraps: from every program counter p it returns the
   bytes memory[p mod 4096] and memory[(p + 1) mod 4096], leaves
   program_counter = (p + 2) mod 4096 and does not fault. *)
C10_FetchWraps ==
    [][op' = "fetch" =>
         /\ status' = "running"
         /\ instruction' = <<memory[program_counter % 4096],
                             memory[(program_counter + 1) % 4096]>>
         /\ program_counter' = (program_counter + 2) % 4096]_vars

-----------------------------------------------------------------------------
(* Claims about run, under RunSpec: interval[1] counts the ticks of the
   instruction loop *)

\* The step taken is one tick of run's instruction interval.
InstructionTick == interval'[1] = interval[1] + 1

(* C11: every tick of the instruction loop of run performs one fetch followed
   by one decode_execute of the fetched instruction: the two bytes at the
   program counter are fetched and executed, so k ticks execute k instructions. *)
C11_RunTickExecutesInstruction ==
    [][InstructionTick =>
         /\ op' = "decode_execute"
         /\ fetched_at' = <<program_counter>>
         /\ instruction' = <<memory[program_counter % 4096],
                             memory[(program_counter + 1) % 4096]>>]_vars

\* The period of the timer loop in microseconds, 60 ticks per second.
TimerPeriod == 1000000 \div TimerRate

(* C12: the timers are ticked 60 times per second, whatever the instruction
   rate: two consecutive calls of Timer::cycle are a timer period apart, which
   is 11 to 12 instruction ticks of 1429 microseconds, never one. *)
C12_TimerTicksAtSixtyHertz ==
    [][(op = "cycle" /\ op' = "cycle") =>
         /\ interval'[2] - interval[2] >= TimerPeriod - InstructionPeriod
         /\ interval'[1] - interval[1] \in {11, 12}]_vars

-----------------------------------------------------------------------------
(* Construction and decode claims *)

(* C13: right after CHIP8::new, memory holds the 80 bytes of the font at
   0x50..0x9F, inside the reserved region below 0x200, and 0 everywhere else;
   the 16 registers, the index register and both timers are 0, the stack is
   empty and every pixel is off. *)
C13_FreshMachine ==
    op = "new" =>
        /\ Len(FONT_SET) = 80
        /\ \A k \in 0..79 : memory[80 + k] = FONT_SET[k + 1]
        /\ \A a \in 0..4095 : (a < 80 \/ a > 159) => memory[a] = 0
        /\ DOMAIN variable = 0..15
        /\ \A r \in 0..15 : variable[r] = 0
        /\ index = 0
        /\ delay_timer = 0
        /\ sound_timer = 0
        /\ stack = <<>>
        /\ AllOff(screen)

\* The fresh machine: the first and last font bytes in place, zero around them.
C13_Witness ==
    /\ op = "new"
    /\ memory[79] = 0
    /\ memory[80] = 240
    /\ memory[159] = 128
    /\ memory[160] = 0
    /\ steps = 0

(* C14: of the instructions with itype 0x0 only the word 00E0 clears the
   screen; every other one (0000, 00EE, 0123) is an unimplemented instruction
   and leaves the display, and the rest of the machine, as it was. *)
C14_OnlyE0Clears ==
    [][(Executes(0) /\ instruction' # Word(0, 0, 14, 0)) =>
         /\ screen' = screen
         /\ UNCHANGED <<memory, stack, variable, index, program_counter>>]_vars

(* C15: for every instruction (b1, b2) decode yields itype = b1 >> 4,
   x = b1 & 0xF, y = b2 >> 4, n = b2 & 0xF, nn = b2 and nnn = the low 12 bits
   of the word b1 << 8 | b2; nnn is in 0x000..0xFFF and the word is
   itype << 12 | nnn. The handlers act on these fields: the jump leaves
   program_counter = nnn, set-index leaves index = nnn, set-immediate leaves
   V[x] = nn. *)
C15_DecodeFields ==
    op = "decode_execute" =>
        LET i == instruction
            w == i[1] * 256 + i[2]
        IN  /\ IType(i) = i[1] \div 16
            /\ FieldX(i) = i[1] % 16
            /\ FieldY(i) = i[2] \div 16
            /\ FieldN(i) = i[2] % 16
            /\ FieldNN(i) = i[2]
            /\ FieldNNN(i) = w % 4096
            /\ FieldNNN(i) \in 0..4095
            /\ IType(i) * 4096 + FieldNNN(i) = w
            /\ (i[1] \div 16 = 1 => program_counter = w % 4096)
            /\ (i[1] \div 16 = 10 => index = w % 4096)
            /\ (i[1] \div 16 = 6 => variable[i[1] % 16] = i[2])

\* ABCD was decoded: set-index with nnn = 0xBCD.
C15_Witness ==
    /\ op = "decode_execute"
    /\ instruction = <<171, 205>>
    /\ index = 3021
    /\ status = "running"

-----------------------------------------------------------------------------
(* Frame claims of the instruction loop and the timer loop *)

(* C16: set-immediate 6XNN leaves V[x] = nn and every other register, index,
   program counter, memory, display, stack and timer as it was; set-index ANNN
   leaves index = nnn and all 16 registers, program counter, memory, display,
   stack and timers as they were. Neither faults. *)
C16_SetWritesOnlyItsTarget ==
    /\ [][Executes(6) =>
            /\ variable' = [variable EXCEPT ![OpX(instruction')] = OpNN(instruction')]
            /\ status' = "running"
            /\ UNCHANGED <<memory, screen, stack, index, delay_timer, sound_timer,
                           program_counter>>]_vars
    /\ [][Executes(10) =>
            /\ index' = OpNNN(instruction')
            /\ status' = "running"
            /\ UNCHANGED <<memory, screen, stack, variable, delay_timer, sound_timer,
                           program_counter>>]_vars

\* A203 has set the index on a machine with V0 and the timers set.
C16_Witness ==
    /\ op = "decode_execute"
    /\ instruction = Word(10, 2, 0, 3)
    /\ index = 515
    /\ variable[0] = 255
    /\ sound_timer = 2
    /\ program_counter = 0

(* C17: the timer tick and the fetch-execute step commute: from every state,
   Timer::cycle followed by one fetch-execute step leaves the same machine as
   the fetch-execute step followed by Timer::cycle. *)
C17_TickAndStepCommute ==
    status = "running" => StepOn(CycleOn(Machine)) = CycleOn(StepOn(Machine))

\* The same, from the states whose fetch-execute step does not panic.
TickAndStepCommuteUnlessPanic ==
    (status = "running" /\ StepOn(Machine).status = "running") =>
        StepOn(CycleOn(Machine)) = CycleOn(StepOn(Machine))

\* Timer::cycle writes only the timers; fetch and decode_execute never do.
DisjointTargets ==
    /\ [][op' = "cycle" =>
            UNCHANGED <<memory, screen, stack, variable, index, program_counter>>]_vars
    /\ [][op' \in {"fetch", "decode_execute"} =>
            UNCHANGED <<delay_timer, sound_timer>>]_vars

\* Memory after new() and a load of Program at 0x200.
LoadedMemory ==
    [a \in 0..(MemSize - 1) |->
       IF a >= LoadAddr /\ a < LoadAddr + Len(Program) THEN Program[(a - LoadAddr) + 1]
       ELSE NewMemory[a]]

(* C18: no operation writes memory or the call stack: fetch, decode_execute,
   clear and the timer tick leave both unchanged, so memory is always the
   memory of the fresh machine or of the load (the font table at 0x50..0x9F
   intact) and the stack is always empty. *)
C18_MemoryAndStackNeverWritten ==
    /\ [][op' \in {"fetch", "decode_execute", "cycle", "clear"} =>
            UNCHANGED <<memory, stack>>]_vars
    /\ [](/\ stack = <<>>
          /\ memory \in {NewMemory, LoadedMemory}
          /\ \A k \in 0..79 : memory[FontStart + k] = FONT_SET[k + 1])

\* After the load: 60 0A fetched and executed, then a timer tick.
C18_Witness ==
    /\ op = "cycle"
    /\ steps = 3
    /\ memory = LoadedMemory
    /\ memory[LoadAddr] = 96
    /\ variable[0] = 10
    /\ program_counter = 514
    /\ stack = <<>>

\* Both timers have run out.
TimersAtRest == delay_timer = 0 /\ sound_timer = 0

\* The larger of the two values the timers were started from.
LongerStart ==
    IF timer_start[1] > timer_start[2] THEN timer_start[1] ELSE timer_start[2]

(* C19: with no writer but Timer::cycle, neither timer ever goes up; under
   fair ticking of the run loop both timers reach 0 and stay 0 forever; from
   delay = d and sound = s both are 0 after exactly max(d, s) ticks and not
   before; and once both are 0 no beep is printed any more. *)
C19_TimersRunOutAndStayOut ==
    /\ [][op' # "write" =>
            delay_timer' <= delay_timer /\ sound_timer' <= sound_timer]_vars
    /\ <>[]TimersAtRest
    /\ [](TimersAtRest <=> interval[1] >= LongerStart)
    /\ [][TimersAtRest => (TimersAtRest' \/ op' = "write") /\ stdout' = stdout]_vars

\* From delay 5 and sound 2: at rest after the fifth tick, two beeps in all,
\* and still so a tick later.
C19_Witness ==
    /\ op = "cycle"
    /\ timer_start = <<5, 2>>
    /\ interval[1] = 6
    /\ TimersAtRest
    /\ Beeps(stdout) = 2

====
